---- MODULE Spec2Model ----
(***************************************************************************)
(* Akari Manager: the transport client (api_client.py), the refresh        *)
(* coordinator (coordinator.py), the entry setup (__init__.py) and the     *)
(* reload button (button.py), for one config entry and one device.         *)
(*                                                                         *)
(* The host framework's DataUpdateCoordinator and Debouncer are modelled   *)
(* at the places where the integration calls them: a refresh cycle is one  *)
(* call of _async_update_data, started by the first refresh, by the        *)
(* polling timer or by async_request_refresh.                              *)
(***************************************************************************)
EXTENDS Integers, Sequences, FiniteSets, TLC

(* ------------------------------ bounds -------------------------------- *)

\* Refresh cycles started in one behaviour (cycle ids 1..MaxCycles).
MaxCycles == 4

\* Slots for refresh cycles that are running at the same time.
MaxInFlight == 2

\* Config generations of the device: a successful reload moves to the next.
MaxGen == 1

(* ---------------------------- const.py -------------------------------- *)

PLATFORMS == <<"sensor", "binary_sensor", "button">>
API_STATUS == "/api/status"
API_SYSTEM_INFO == "/api/system/info"
API_RELOAD == "/api/config/reload"
API_DEVICES == "/api/devices"
API_RESTART == "/api/system/restart"
UPDATE_INTERVAL_SECONDS == 30
DEFAULT_PORT == 8080
CONFIG_SECTIONS == <<"mqtt", "devices", "covers", "sensors", "modbus", "system">>
REQUEST_TIMEOUT == 10

\* The names const.py defines.
ConstNames ==
    { "DOMAIN", "PLATFORMS", "CONF_DEVICE_ID", "CONF_API_URL", "CONF_API_KEY",
      "API_STATUS", "API_SYSTEM_INFO", "API_SYSTEM_LOGS", "API_CONFIG",
      "API_CONFIG_SECTION", "API_RELOAD", "API_RESTART", "API_DEVICES",
      "MQTT_DISCOVERY_TOPIC", "MQTT_DISCOVERY_TIMEOUT",
      "UPDATE_INTERVAL_SECONDS", "CONFIG_SECTIONS",
      "SERVICE_GET_CONFIG_SECTION", "SERVICE_UPDATE_CONFIG_SECTION",
      "SERVICE_GET_DEVICES" }

\* The names each platform module imports from const.
PlatformImports(p) ==
    CASE p = "sensor" -> {"CONF_API_KEY", "CONF_API_URL", "CONF_RPI_ID", "DOMAIN"}
      [] p = "binary_sensor" -> {"CONF_API_URL", "CONF_DEVICE_ID", "DOMAIN"}
      [] p = "button" -> {"CONF_API_URL", "CONF_DEVICE_ID", "DOMAIN"}

\* The names of the entry-data keys each platform's async_setup_entry reads.
PlatformReads(p) ==
    CASE p = "sensor" -> {"CONF_RPI_ID", "CONF_API_URL"}
      [] p = "binary_sensor" -> {"CONF_DEVICE_ID", "CONF_API_URL"}
      [] p = "button" -> {"CONF_DEVICE_ID", "CONF_API_URL"}

\* A platform module can be imported when const defines every name it imports.
PlatformLoads(p) == PlatformImports(p) \subseteq ConstNames

Range(s) == { s[i] : i \in 1..Len(s) }

(* --------------------------- JSON values ------------------------------ *)

Null == [k |-> "null"]
Str(s) == [k |-> "str", s |-> s]
Num(n) == [k |-> "num", n |-> n]
Map(f) == [k |-> "map", m |-> f]

Bool(b) == [k |-> "bool", b |-> b]
List(l) == [k |-> "list", l |-> l]
EmptyMap == Map(<<>>)

\* An exception (AttributeError, TypeError) raised while a value is read.
Raises == [k |-> "raise"]

\* isinstance(value, dict)
IsDict(v) == v.k = "map"

\* value.get(key): the value, or None when the key is missing; on a value
\* that is not a dict the attribute lookup raises.
DictGet(v, key) ==
    IF ~IsDict(v) THEN Raises
    ELSE IF key \in DOMAIN v.m THEN v.m[key] ELSE Null

\* What the device serves for a path in config generation g.
DeviceDocument(path, g) ==
    IF path = API_STATUS
    THEN IF g = 0
         THEN Map("modules" :> Map("mqtt" :> Str("running")))
         ELSE Map("modules" :> Str("down"))
    ELSE IF path = API_SYSTEM_INFO
    THEN Map("cpu_temp" :> Num(40 + g) @@ "version" :> Str("1.0"))
    ELSE Map("ok" :> Str("true"))

\* The bodies a response can carry: a JSON document, text that is not JSON,
\* or nothing.
BodyKinds == {"json", "text", "empty"}

\* response.json(content_type=None): the parsed value; an empty body parses
\* to None; a body that is not JSON raises json.JSONDecodeError.
ParseJson(kind, doc) ==
    CASE kind = "json" -> [raised |-> FALSE, val |-> doc]
      [] kind = "empty" -> [raised |-> FALSE, val |-> Null]
      [] OTHER -> [raised |-> TRUE, val |-> Null]

(* ------------------------ api_client._request ------------------------- *)

\* The statuses the device answers with.
Statuses == {200, 204, 304, 401, 403, 404, 500}

\* aiohttp's ClientResponse.ok
ResponseOk(status) == status < 400

\* The phase of a request after session.request returned a response with
\* this status: an exception raised, or the body still to be read.
AfterResponse(status) ==
    IF status = 401 THEN "AkariAuthError"
    ELSE IF status = 403 THEN "AkariAuthError"
    ELSE IF ~ResponseOk(status) THEN "AkariConnectionError"
    ELSE "body"

\* The phases in which a call of _request is over.
Raised == {"AkariAuthError", "AkariConnectionError", "raw"}
Over == Raised \cup {"returned"}

\* No request.
NoRequest ==
    [ph |-> "none", method |-> "", path |-> "", val |-> Null,
     elapsed |-> FALSE, cyc |-> 0]

\* _request(method, path) up to its first await: the request is on the wire
\* inside asyncio.timeout(REQUEST_TIMEOUT).
NewRequest(method, path, c) ==
    [ph |-> "headers", method |-> method, path |-> path, val |-> Null,
     elapsed |-> FALSE, cyc |-> c]


\* session.request returned a response with this status.
AfterStatus(q, status) == [q EXCEPT !.ph = AfterResponse(status)]

\* session.request raised aiohttp.ClientConnectionError.
AfterConnectError(q) == [q EXCEPT !.ph = "AkariConnectionError"]

\* What the passing of REQUEST_TIMEOUT seconds does to a request: inside
\* asyncio.timeout (awaiting session.request) it raises TimeoutError, which
\* _request turns into AkariConnectionError; response.json() is awaited
\* after the timeout block was left, and goes on.
AfterTimeout(q) ==
    IF q.ph = "headers"
    THEN [q EXCEPT !.ph = "AkariConnectionError", !.elapsed = TRUE]
    ELSE [q EXCEPT !.elapsed = TRUE]

\* _request's last line: the value response.json(content_type=None)
\* returns, or the exception it raises, which _request does not catch.
AfterBody(q, kind, doc) ==
    LET parsed == ParseJson(kind, doc)
    IN  IF parsed.raised
        THEN [q EXCEPT !.ph = "raw"]
        ELSE [q EXCEPT !.ph = "returned", !.val = parsed.val]

(* ------------------------------ state --------------------------------- *)

Slots == 1..MaxInFlight
Endpoints == {"status", "system_info"}

\* The requests of the model: the connectivity check of setup, the POST of
\* the reload button, and the two fetches of each cycle slot.
PROBE == <<0, "probe">>
POST == <<0, "post">>
Fetch(s, ep) == <<s, ep>>
ReqIds == {PROBE, POST} \cup { Fetch(s, ep) : s \in Slots, ep \in Endpoints }

NoCycle == [st |-> "idle", kind |-> "", id |-> 0]
NoOrigin == [status |-> 0, system_info |-> 0]
NoSetupResult == [outcome |-> "none", stage |-> "", exc |-> ""]
NewDebouncer == [timer |-> FALSE, at_end |-> FALSE, lock |-> FALSE]

VARIABLES
    entry_state,          \* the host's state of the config entry
    setup_pc,             \* where async_setup_entry is
    setup_result,         \* how the last async_setup_entry ended, and why
    hass_data,            \* hass.data[DOMAIN]: entries with a coordinator
    services,             \* the three services are registered
    platforms,            \* platforms whose entities are attached
    data,                 \* coordinator.data: None (Null) or the snapshot
    origin,               \* the cycle each part of data was fetched by
    last_update_success,  \* coordinator.last_update_success
    last_exception,       \* coordinator.last_exception
    unsub_refresh,        \* the polling timer is armed
    debounce,             \* the request-refresh debouncer
    cycle,                \* slot -> running refresh cycle
    req,                  \* request id -> request
    press_pc,             \* where the button's async_press is
    press,                \* the last press: its action, and what it did
    owed,                 \* a refresh requested by a reload press is outstanding
    dev_gen,              \* the device's config generation
    next_cycle,           \* the next cycle id
    call,                 \* one call of the client's _request, with its inputs
    entry_data,           \* entry.data: api_url and api_key
    client,               \* the coordinator's client: its _api_url and _api_key
    flow,                 \* the options flow
    view,                 \* the last read of a view: its inputs and its values
    svc,                  \* the last call of a service handler or get_devices
    cfg                   \* the config entries and the config flows in progress

vars ==
    << entry_state, setup_pc, setup_result, hass_data, services, platforms,
       data, origin, last_update_success, last_exception, unsub_refresh,
       debounce, cycle, req, press_pc, press, owed, dev_gen, next_cycle, call,
       entry_data, client, flow, view, svc, cfg >>

main_vars_but_view ==
    << entry_state, setup_pc, setup_result, hass_data, services, platforms,
       data, origin, last_update_success, last_exception, unsub_refresh,
       debounce, cycle, req, press_pc, press, owed, dev_gen, next_cycle >>

main_vars_but_flow ==
    << entry_state, setup_pc, setup_result, hass_data, services, platforms,
       data, origin, last_update_success, last_exception, unsub_refresh,
       debounce, cycle, req, press_pc, press, owed, dev_gen, next_cycle,
       view, svc, cfg >>

coordinator_vars ==
    << data, origin, last_update_success, last_exception >>

registry_vars == << hass_data, services, platforms >>

ENTRY == "e1"

\* entry.data[CONF_DEVICE_ID]
DEVICE_ID == "d1"

\* No press yet.
NoPress ==
    [action |-> "", result |-> "none", notices |-> <<>>, logged |-> FALSE,
     refreshes |-> 0, events |-> <<>>]

\* config_flow._build_api_url: "http://{host}:{port}".
BuildApiUrl(host, port) == <<"http", host, port>>

\* urlparse(url): hostname and port.
ParseUrl(url) == [hostname |-> url[2], port |-> url[3]]

\* AkariApiClient(api_url, api_key, session).
NewClient(api_url, api_key) == [api_url |-> api_url, api_key |-> api_key]

NoClient == [api_url |-> <<>>, api_key |-> ""]

\* As Headers, for a client that sends its key whatever it is.
Headers_always(c) ==
    {<<"Content-Type", "application/json">>, <<"X-API-Key", c.api_key>>}

\* AkariApiClient._headers: the header fields of a request, as pairs.
Headers(c) ==
    {<<"Content-Type", "application/json">>}
        \cup (IF c.api_key # "" THEN {<<"X-API-Key", c.api_key>>} ELSE {})

\* The host of the device, and the ports and keys a user can enter.
HOST == "akari.local"
Ports == {DEFAULT_PORT, DEFAULT_PORT + 1}
Keys == {"k1", "k2"}

\* No view read yet.
NoView ==
    [snapshot |-> Null, path |-> <<>>, value |-> Null, located |-> Null,
     is_on |-> Null, sw_version |-> Null]

\* No service called yet.
NoService ==
    [op |-> "", section |-> "", outcome |-> "", body |-> Null, raised |-> "none",
     result |-> Null, notices |-> <<>>]

\* The config flows that can be in progress together, and no flow.
FlowIds == {1, 2}
NoId == "-"

NoConfigFlow ==
    [step |-> "none", offered |-> {},
     pending |-> [device_id |-> "", host |-> "", port |-> DEFAULT_PORT, api_key |-> ""],
     unique_id |-> NoId, client |-> NoClient, api_key |-> "", outcome |-> "",
     errors |-> "", reason |-> ""]

NoFlow == [pc |-> "idle", url |-> <<>>, key |-> "", q |-> NoRequest, errors |-> ""]

\* The variables async_setup_entry leaves alone except for building its
\* client.
flow_vars == << call, entry_data, flow, view, svc, cfg >>

\* The variables of the client, flow and view checks below.
aux_vars == << flow_vars, client >>

NoCall ==
    [method |-> "", path |-> "", headers |-> {}, status |-> 0, transport |-> "",
     body |-> "", q |-> NoRequest]

Init ==
    /\ entry_state = "not_loaded"
    /\ setup_pc = "idle"
    /\ setup_result = NoSetupResult
    /\ hass_data = {}
    /\ services = FALSE
    /\ platforms = {}
    /\ data = Null
    /\ origin = NoOrigin
    /\ last_update_success = TRUE
    /\ last_exception = "none"
    /\ unsub_refresh = FALSE
    /\ debounce = NewDebouncer
    /\ cycle = [s \in Slots |-> NoCycle]
    /\ req = [r \in ReqIds |-> NoRequest]
    /\ press_pc = "idle"
    /\ press = NoPress
    /\ owed = FALSE
    /\ dev_gen = 0
    /\ next_cycle = 1
    /\ call = NoCall
    /\ entry_data = [api_url |-> BuildApiUrl(HOST, DEFAULT_PORT), api_key |-> "k1"]
    /\ client = NoClient
    /\ flow = NoFlow
    /\ view = NoView
    /\ svc = NoService
    /\ cfg = [entries |-> <<>>, flows |-> [f \in FlowIds |-> NoConfigFlow]]

(* ------------------------- read-only views ---------------------------- *)

\* Python's truth value of a JSON value.
Truthy(v) ==
    CASE v.k = "null" -> FALSE
      [] v.k = "bool" -> v.b
      [] v.k = "num" -> v.n # 0
      [] v.k = "str" -> v.s # ""
      [] v.k = "map" -> DOMAIN v.m # {}
      [] v.k = "list" -> v.l # <<>>
      [] OTHER -> TRUE

\* Python's "not value".
Falsy(v) == ~Truthy(v)

\* As Walk, without the isinstance check before value.get.
RECURSIVE Walk_unchecked(_, _)
Walk_unchecked(value, path) ==
    IF path = <<>> THEN value
    ELSE Walk_unchecked(DictGet(value, Head(path)), Tail(path))

\* The loop of native_value and _get_value: one key of the path at a time,
\* None as soon as the value at hand is not a dict.
RECURSIVE Walk(_, _)
Walk(value, path) ==
    IF path = <<>> THEN value
    ELSE IF ~IsDict(value) THEN Null
    ELSE Walk(DictGet(value, Head(path)), Tail(path))

\* AkariSensor.native_value against coordinator.data d.
native_value(d, path) == IF Falsy(d) THEN Null ELSE Walk(d, path)

\* AkariBinarySensor._get_value against coordinator.data d.
get_value(d, path) == IF Falsy(d) THEN Null ELSE Walk(d, path)

\* As Lower, leaving the string as it is.
Lower_identity(s) == s

\* str.lower() on the strings of the model.
Lower(s) ==
    CASE s = "Running" -> "running"
      [] s = "OK" -> "ok"
      [] s = "True" -> "true"
      [] s = "Active" -> "active"
      [] s = "Disabled" -> "disabled"
      [] OTHER -> s

\* The strings is_on takes for on.
OnWords == {"true", "ok", "running", "active", "1"}

\* AkariBinarySensor.is_on from the value _get_value returned: None, or a
\* bool.
is_on(value) ==
    IF value = Null THEN Null
    ELSE IF value.k = "raise" THEN Raises
    ELSE IF value.k = "bool" THEN value
    ELSE IF value.k = "str" THEN Bool(Lower(value.s) \in OnWords)
    ELSE Bool(Truthy(value))

\* sw_version of AkariEntity.device_info against coordinator.data d.
sw_version(d) ==
    LET sys_info == IF Truthy(d)
                    THEN (IF "system_info" \in DOMAIN d.m THEN d.m["system_info"] ELSE EmptyMap)
                    ELSE EmptyMap
    IN  DictGet(sys_info, "version")

\* What the views read against coordinator.data d at a path.
ReadViews(d, path) ==
    [snapshot |-> d, path |-> path,
     value |-> native_value(d, path),
     located |-> get_value(d, path),
     is_on |-> is_on(get_value(d, path)),
     sw_version |-> sw_version(d)]

\* data_path of some of SENSOR_DESCRIPTIONS and BINARY_SENSOR_DESCRIPTIONS.
ViewPaths ==
    { <<"system_info", "cpu_temp">>, <<"system_info", "memory_used_mb">>,
      <<"status", "modules", "mqtt">>, <<"system_info", "overlay_active">> }

(* ----------------- coordinator._async_update_data --------------------- *)

\* The except clauses of _async_update_data: what leaves the method when a
\* fetch raised exc.
UpdateFailure(exc) ==
    IF exc = "AkariAuthError" THEN "UpdateFailed: Authentication error"
    ELSE IF exc = "AkariConnectionError" THEN "UpdateFailed: Cannot connect"
    ELSE exc

\* The dict _async_update_data returns from the two gathered values.
Snapshot(status, sys_info) ==
    Map("status" :> status @@ "system_info" :> sys_info)

\* As GatherDone, for a gather that waits until both fetches are over.
GatherDone_waits(qs, qi) == qs.ph \in Over /\ qi.ph \in Over

\* asyncio.gather over the two fetches has a result: one raised, or both
\* returned.
GatherDone(qs, qi) ==
    \/ qs.ph \in Raised
    \/ qi.ph \in Raised
    \/ qs.ph = "returned" /\ qi.ph = "returned"

\* As async_update_data, but a cycle whose system-info fetch raised
\* returns the status it has, without system info.
async_update_data_partial(qs, qi) ==
    IF qs.ph \in Raised THEN [raised |-> UpdateFailure(qs.ph)]
    ELSE IF qi.ph \in Raised /\ qs.ph # "returned" THEN [raised |-> UpdateFailure(qi.ph)]
    ELSE [raised |-> "none",
          val |-> Snapshot(qs.val, qi.val),
          origin |-> [status |-> qs.cyc,
                      system_info |-> IF qi.ph = "returned" THEN qi.cyc ELSE 0]]

\* _async_update_data once gather has a result: the exception that leaves
\* it, or the snapshot it returns (with the cycles its parts came from).
async_update_data(qs, qi) ==
    IF qs.ph \in Raised THEN [raised |-> UpdateFailure(qs.ph)]
    ELSE IF qi.ph \in Raised THEN [raised |-> UpdateFailure(qi.ph)]
    ELSE [raised |-> "none",
          val |-> Snapshot(qs.val, qi.val),
          origin |-> [status |-> qs.cyc, system_info |-> qi.cyc]]

\* As AfterUpdate, but a failed cycle clears the data.
AfterUpdate_clearing(c, res) ==
    IF res.raised = "none"
    THEN [data |-> res.val, origin |-> res.origin,
          last_update_success |-> TRUE, last_exception |-> "none"]
    ELSE [c EXCEPT !.data = Null, !.origin = NoOrigin,
                   !.last_update_success = FALSE, !.last_exception = res.raised]

\* The coordinator after _async_update_data ended with res: a snapshot
\* replaces the data; an exception leaves the data and is recorded.
AfterUpdate(c, res) ==
    IF res.raised = "none"
    THEN [data |-> res.val, origin |-> res.origin,
          last_update_success |-> TRUE, last_exception |-> "none"]
    ELSE [c EXCEPT !.last_update_success = FALSE, !.last_exception = res.raised]

Coordinator ==
    [data |-> data, origin |-> origin,
     last_update_success |-> last_update_success,
     last_exception |-> last_exception]

SetCoordinator(c) ==
    /\ data' = c.data
    /\ origin' = c.origin
    /\ last_update_success' = c.last_update_success
    /\ last_exception' = c.last_exception

NewCoordinator ==
    [data |-> Null, origin |-> NoOrigin, last_update_success |-> TRUE,
     last_exception |-> "none"]

(* ------------------------- refresh cycles ----------------------------- *)

Running(s) == cycle[s].st = "run"
HasFreeSlot == \E s \in Slots : ~Running(s)
FreeSlot == CHOOSE s \in Slots : ~Running(s) /\ \A t \in Slots : t < s => Running(t)
CanStartCycle == HasFreeSlot /\ next_cycle <= MaxCycles

\* As WithCycle, with get_status alone.
WithCycle_statusonly(rq, s, c) ==
    [rq EXCEPT ![Fetch(s, "status")] = NewRequest("GET", API_STATUS, c)]

\* _async_update_data up to its await: both fetches are issued.
WithCycle(rq, s, c) ==
    [rq EXCEPT ![Fetch(s, "status")] = NewRequest("GET", API_STATUS, c),
               ![Fetch(s, "system_info")] = NewRequest("GET", API_SYSTEM_INFO, c)]

\* The requests of slot s are forgotten: nothing reads them any more.
WithoutCycle(rq, s) ==
    [rq EXCEPT ![Fetch(s, "status")] = NoRequest,
               ![Fetch(s, "system_info")] = NoRequest]

StartCycle(kind, rq) ==
    /\ cycle' = [cycle EXCEPT ![FreeSlot] = [st |-> "run", kind |-> kind, id |-> next_cycle]]
    /\ req' = WithCycle(rq, FreeSlot, next_cycle)
    /\ next_cycle' = next_cycle + 1

\* A running cycle whose unfinished fetches all wait for a body, past the
\* request timeout: REQUEST_TIMEOUT seconds after it started it is still
\* running.
Stalled(s) ==
    \A ep \in Endpoints :
        \/ req[Fetch(s, ep)].ph = "returned"
        \/ req[Fetch(s, ep)].ph = "body" /\ req[Fetch(s, ep)].elapsed

\* Entities are attached: the coordinator has listeners.
HasListeners == platforms # {}

(* ---------------------- __init__.async_setup_entry -------------------- *)

\* As AfterConnectivityCheck, with the two except clauses swapped.
AfterConnectivityCheck_swapped(ph) ==
    CASE ph = "AkariAuthError" -> "not_ready"
      [] ph = "AkariConnectionError" -> "abort"
      [] ph = "returned" -> "continue"
      [] OTHER -> "raised"

\* Lines 41-48: what the connectivity check makes of get_status's result.
AfterConnectivityCheck(ph) ==
    CASE ph = "AkariAuthError" -> "abort"
      [] ph = "AkariConnectionError" -> "not_ready"
      [] ph = "returned" -> "continue"
      [] OTHER -> "raised"

\* As AfterFirstRefresh, but a failed first refresh does not raise (a
\* plain async_refresh in place of async_config_entry_first_refresh).
AfterFirstRefresh_ignored(success) == "continue"

\* async_config_entry_first_refresh: ConfigEntryNotReady unless the cycle
\* succeeded.
AfterFirstRefresh(success) == IF success THEN "continue" ELSE "not_ready"

\* The host's entry state for an outcome of async_setup_entry.
EntryStateFor(outcome) ==
    CASE outcome = "ok" -> "loaded"
      [] outcome = "not_ready" -> "setup_retry"
      [] OTHER -> "setup_error"

\* Nothing of an earlier coordinator of the entry is still running: the
\* model sets the entry up again only then, so that its variables describe
\* one coordinator at a time.
Quiet ==
    /\ press_pc = "idle"
    /\ \A s \in Slots : ~Running(s)

\* The host calls async_setup_entry; the client is built and get_status is
\* awaited.
SetupEntry ==
    /\ UNCHANGED flow_vars
    /\ client' = NewClient(entry_data.api_url, entry_data.api_key)
    /\ entry_state \in {"not_loaded", "setup_retry"}
    /\ setup_pc = "idle"
    /\ Quiet
    /\ entry_state' = "setup_in_progress"
    /\ setup_pc' = "check"
    /\ setup_result' = NoSetupResult
    /\ req' = [req EXCEPT ![PROBE] = NewRequest("GET", API_STATUS, 0)]
    /\ UNCHANGED << registry_vars, coordinator_vars, unsub_refresh, debounce,
                    cycle, press_pc, press, owed, dev_gen, next_cycle >>

\* The connectivity check is over.  It failed: setup returns False or
\* raises.  It passed: the coordinator is built and its first refresh
\* started.
SetupCheckDone(rq) ==
    LET outcome == AfterConnectivityCheck(rq[PROBE].ph)
    IN  IF outcome = "continue"
        THEN /\ CanStartCycle
             /\ setup_pc' = "first_refresh"
             /\ SetCoordinator(NewCoordinator)
             /\ debounce' = NewDebouncer
             /\ unsub_refresh' = FALSE
             /\ StartCycle("first", [rq EXCEPT ![PROBE] = NoRequest])
             /\ UNCHANGED << entry_state, setup_result, registry_vars, press_pc, press, owed >>
        ELSE /\ setup_result' = [outcome |-> outcome, stage |-> "check", exc |-> rq[PROBE].ph]
             /\ entry_state' = EntryStateFor(outcome)
             /\ setup_pc' = "idle"
             /\ req' = [rq EXCEPT ![PROBE] = NoRequest]
             /\ UNCHANGED << registry_vars, coordinator_vars, unsub_refresh,
                             debounce, cycle, press_pc, press, owed, next_cycle >>

\* What async_forward_entry_setups does with a platform module that cannot
\* be imported: the host skips the platform, or the import error leaves
\* async_setup_entry.
ForwardOutcomes ==
    IF \A p \in Range(PLATFORMS) : PlatformLoads(p) THEN {"ok"} ELSE {"skip", "raise"}

\* Lines 53-61, after the first refresh.
SetupFinish(fwd) ==
    /\ hass_data' = hass_data \cup {ENTRY}
    /\ IF fwd = "raise"
       THEN /\ platforms' = {}
            /\ services' = services
            /\ unsub_refresh' = FALSE
            /\ setup_result' = [outcome |-> "raised", stage |-> "forward", exc |-> "ImportError"]
            /\ entry_state' = EntryStateFor("raised")
       ELSE /\ platforms' = { p \in Range(PLATFORMS) : PlatformLoads(p) }
            /\ services' = TRUE
            /\ unsub_refresh' = (platforms' # {})
            /\ setup_result' = [outcome |-> "ok", stage |-> "", exc |-> ""]
            /\ entry_state' = EntryStateFor("ok")

\* The first refresh failed: line 51 raises ConfigEntryNotReady.
SetupNotReady(err) ==
    /\ setup_result' = [outcome |-> "not_ready", stage |-> "first_refresh", exc |-> err]
    /\ entry_state' = EntryStateFor("not_ready")
    /\ UNCHANGED << registry_vars, unsub_refresh >>

(* ------------------- button.async_press: its parts ------------------- *)

\* action of BUTTON_DESCRIPTIONS.
ButtonActions == {"restart", "reload"}

\* The client method async_press calls for an action: the path it posts to.
ButtonPath(action) == IF action = "restart" THEN API_RESTART ELSE API_RELOAD

\* notification_id of the confirmation async_press creates.
NotificationId(action) == <<"akari", DEVICE_ID, action>>

\* As RequestsRefresh, for a press that refreshes after either action.
RequestsRefresh_always(action) == TRUE

\* The branch of async_press that awaits coordinator.async_request_refresh().
RequestsRefresh(action) == action = "reload"

\* As PressFailed, for a press that shows its confirmation all the same.
PressFailed_confirming(p, exc) ==
    [p EXCEPT !.notices = Append(@, NotificationId(p.action)),
              !.events = Append(@, "notify"), !.result = "normal"]

\* The except clause of async_press: AkariConnectionError is logged and the
\* press ends normally; any other exception leaves async_press.
PressFailed(p, exc) ==
    IF exc = "AkariConnectionError"
    THEN [p EXCEPT !.logged = TRUE, !.result = "normal"]
    ELSE [p EXCEPT !.result = exc]

\* coordinator.async_request_refresh() is called.
PressRefreshRequested(p) ==
    [p EXCEPT !.refreshes = @ + 1, !.events = Append(@, "request_refresh")]

\* persistent_notification.async_create: the confirmation is shown, and
\* async_press returns.
PressConfirmed(p) ==
    [p EXCEPT !.notices = Append(@, NotificationId(p.action)),
              !.events = Append(@, "notify"), !.result = "normal"]

(* --------------------------- end of a cycle --------------------------- *)

\* The debouncer after the refresh it ran: the cooldown timer is armed and
\* the lock released.
DebouncerAfterCall(d) == [d EXCEPT !.timer = TRUE, !.lock = FALSE]

\* What follows the end of _async_refresh for a cycle of this kind: setup
\* goes on after the first refresh; the polling timer is armed again when
\* there are listeners; a requested refresh ends the debouncer's call and
\* lets the waiting button press finish.
AfterRefresh(kind, res, fwd) ==
    CASE kind = "first" ->
            /\ setup_pc' = "idle"
            /\ IF AfterFirstRefresh(res.raised = "none") = "continue"
               THEN SetupFinish(fwd)
               ELSE SetupNotReady(res.raised)
            /\ UNCHANGED << debounce, press_pc, press, owed >>
      [] kind = "scheduled" ->
            /\ unsub_refresh' = (HasListeners \/ unsub_refresh)
            /\ UNCHANGED << entry_state, setup_pc, setup_result, registry_vars,
                            debounce, press_pc, press, owed >>
      [] kind = "requested" ->
            /\ unsub_refresh' = (HasListeners \/ unsub_refresh)
            /\ debounce' = DebouncerAfterCall(debounce)
            /\ owed' = FALSE
            /\ press_pc' = IF press_pc = "refreshing" THEN "idle" ELSE press_pc
            /\ press' = IF press_pc = "refreshing" THEN PressConfirmed(press) ELSE press
            /\ UNCHANGED << entry_state, setup_pc, setup_result, registry_vars >>

\* A fetch of the cycle in slot s is over.  While gather waits for the
\* other fetch nothing else happens; else the cycle ends: a snapshot is
\* published, or the failure recorded with the snapshot kept.
CycleStep(s, rq, fwd) ==
    LET qs == rq[Fetch(s, "status")]
        qi == rq[Fetch(s, "system_info")]
    IN  IF GatherDone(qs, qi)
        THEN LET res == async_update_data(qs, qi)
             IN  /\ fwd \in ForwardOutcomes
                 /\ (cycle[s].kind # "first" \/ res.raised # "none") => fwd # "raise"
                 /\ SetCoordinator(AfterUpdate(Coordinator, res))
                 /\ AfterRefresh(cycle[s].kind, res, fwd)
                 /\ cycle' = [cycle EXCEPT ![s] = NoCycle]
                 /\ req' = WithoutCycle(rq, s)
                 /\ UNCHANGED next_cycle
        ELSE /\ fwd # "raise"
             /\ req' = rq
             /\ UNCHANGED << entry_state, setup_pc, setup_result, registry_vars,
                             coordinator_vars, unsub_refresh, debounce, cycle,
                             press_pc, press, owed, next_cycle >>

(* ------------------- polling timer and the debouncer ------------------ *)

\* The first lines of _async_refresh: the polling timer is unsubscribed and
\* the debouncer's pending call cancelled.
DebouncerCancelled(d) == [d EXCEPT !.timer = FALSE, !.at_end = FALSE]

\* The polling timer fires, UPDATE_INTERVAL_SECONDS after it was armed: a
\* scheduled cycle starts.  By then the debouncer's cooldown, armed no
\* earlier and shorter, has run out; and, the interval being longer than
\* REQUEST_TIMEOUT, every request that was in flight when the timer was
\* armed is past its timeout.
TickFires ==
    /\ UNCHANGED aux_vars
    /\ unsub_refresh
    /\ ~debounce.timer
    /\ REQUEST_TIMEOUT < UPDATE_INTERVAL_SECONDS => \A s \in Slots : Running(s) => Stalled(s)
    /\ CanStartCycle
    /\ unsub_refresh' = FALSE
    /\ debounce' = DebouncerCancelled(debounce)
    /\ StartCycle("scheduled", req)
    /\ UNCHANGED << entry_state, setup_pc, setup_result, registry_vars,
                    coordinator_vars, press_pc, press, owed, dev_gen >>

\* Debouncer.async_call with immediate=True: "defer" to the end of a
\* running cooldown, "drop" while a call is executing, else "run" now.
DebouncerDecision(d) ==
    IF d.timer THEN "defer"
    ELSE IF d.lock THEN "drop"
    ELSE "run"

\* The cooldown ends with no call deferred.
CooldownEnds ==
    /\ UNCHANGED aux_vars
    /\ debounce.timer
    /\ ~debounce.at_end
    /\ debounce' = [debounce EXCEPT !.timer = FALSE]
    /\ UNCHANGED << entry_state, setup_pc, setup_result, registry_vars,
                    coordinator_vars, unsub_refresh, cycle, req, press_pc,
                    press, owed, dev_gen, next_cycle >>

\* The cooldown ends with a call deferred: the refresh runs now.
DeferredRefresh ==
    /\ UNCHANGED aux_vars
    /\ debounce.timer
    /\ debounce.at_end
    /\ ~debounce.lock
    /\ CanStartCycle
    /\ debounce' = [timer |-> FALSE, at_end |-> FALSE, lock |-> TRUE]
    /\ unsub_refresh' = FALSE
    /\ StartCycle("requested", req)
    /\ UNCHANGED << entry_state, setup_pc, setup_result, registry_vars,
                    coordinator_vars, press_pc, press, owed, dev_gen >>

(* ------------------------ button.async_press -------------------------- *)

\* A button is pressed: the POST of its action is awaited.
Press(action) ==
    /\ UNCHANGED aux_vars
    /\ entry_state = "loaded"
    /\ "button" \in platforms
    /\ press_pc = "idle"
    /\ press_pc' = "posting"
    /\ press' = [NoPress EXCEPT !.action = action, !.events = <<"post">>]
    /\ req' = [req EXCEPT ![POST] = NewRequest("POST", ButtonPath(action), 0)]
    /\ UNCHANGED << entry_state, setup_pc, setup_result, registry_vars,
                    coordinator_vars, unsub_refresh, debounce, cycle, owed,
                    dev_gen, next_cycle >>

PressReload == Press("reload")

PressRestart == Press("restart")

\* The POST is over.  It raised: the except clause.  It returned: for
\* restart the confirmation is shown; for reload async_request_refresh is
\* awaited first.
PressPostDone(rq) ==
    /\ UNCHANGED << entry_state, setup_pc, setup_result, registry_vars, coordinator_vars >>
    /\ IF rq[POST].ph \in Raised
       THEN /\ press_pc' = "idle"
            /\ press' = PressFailed(press, rq[POST].ph)
            /\ req' = [rq EXCEPT ![POST] = NoRequest]
            /\ UNCHANGED << unsub_refresh, debounce, cycle, owed, next_cycle >>
       ELSE IF ~RequestsRefresh(press.action)
       THEN /\ press_pc' = "idle"
            /\ press' = PressConfirmed(press)
            /\ req' = [rq EXCEPT ![POST] = NoRequest]
            /\ UNCHANGED << unsub_refresh, debounce, cycle, owed, next_cycle >>
       ELSE /\ owed' = TRUE
            /\ LET decision == DebouncerDecision(debounce)
               IN  CASE decision = "defer" ->
                            /\ debounce' = [debounce EXCEPT !.at_end = TRUE]
                            /\ press_pc' = "idle"
                            /\ press' = PressConfirmed(PressRefreshRequested(press))
                            /\ req' = [rq EXCEPT ![POST] = NoRequest]
                            /\ UNCHANGED << unsub_refresh, cycle, next_cycle >>
                     [] decision = "drop" ->
                            /\ press_pc' = "idle"
                            /\ press' = PressConfirmed(PressRefreshRequested(press))
                            /\ req' = [rq EXCEPT ![POST] = NoRequest]
                            /\ UNCHANGED << debounce, unsub_refresh, cycle, next_cycle >>
                     [] OTHER ->
                            /\ CanStartCycle
                            /\ debounce' = [timer |-> FALSE, at_end |-> FALSE, lock |-> TRUE]
                            /\ unsub_refresh' = FALSE
                            /\ press_pc' = "refreshing"
                            /\ press' = PressRefreshRequested(press)
                            /\ StartCycle("requested", [rq EXCEPT ![POST] = NoRequest])

(* --------------------- the device and the network --------------------- *)

InFlight(r) == req[r].ph \in {"headers", "body"}

\* Request r moves to q; when that ends the call of _request, what awaits
\* it goes on in the same step.
Event(r, q, fwd) ==
    LET rq == [req EXCEPT ![r] = q]
    IN  IF r = PROBE /\ q.ph \in Over THEN fwd = "skip" /\ SetupCheckDone(rq)
        ELSE IF r = POST /\ q.ph \in Over THEN fwd = "skip" /\ PressPostDone(rq)
        ELSE IF r \notin {PROBE, POST} THEN CycleStep(r[1], rq, fwd)
        ELSE /\ fwd = "skip"
             /\ req' = rq
             /\ UNCHANGED << entry_state, setup_pc, setup_result, registry_vars,
                             coordinator_vars, unsub_refresh, debounce, cycle,
                             press_pc, press, owed, next_cycle >>

\* A reload that the device accepts moves it to its next config generation.
DeviceAfter(q, status) ==
    IF q.path = API_RELOAD /\ ResponseOk(status) /\ dev_gen < MaxGen
    THEN dev_gen + 1
    ELSE dev_gen

\* The device answers the request: session.request returns the response
\* inside the timeout, and _request classifies its status.
Respond(r, status) ==
    /\ UNCHANGED aux_vars
    /\ req[r].ph = "headers"
    /\ dev_gen' = DeviceAfter(req[r], status)
    /\ Event(r, AfterStatus(req[r], status), "skip")

\* session.request raises aiohttp.ClientConnectionError.
ConnectFails(r) ==
    /\ UNCHANGED aux_vars
    /\ req[r].ph = "headers"
    /\ UNCHANGED dev_gen
    /\ Event(r, AfterConnectError(req[r]), "skip")

\* REQUEST_TIMEOUT seconds have passed since the request was started.
TimeoutElapses(r) ==
    /\ UNCHANGED aux_vars
    /\ InFlight(r)
    /\ ~req[r].elapsed
    /\ UNCHANGED dev_gen
    /\ Event(r, AfterTimeout(req[r]), "skip")

\* The body arrives: response.json() parses it.
BodyArrives(r, kind, fwd) ==
    /\ UNCHANGED aux_vars
    /\ req[r].ph = "body"
    /\ UNCHANGED dev_gen
    /\ Event(r, AfterBody(req[r], kind, DeviceDocument(req[r].path, dev_gen)), fwd)

(* --------------------------- specification ---------------------------- *)

\* The bodies the device sends in answer to the polled requests.
FetchBodyKinds == {"json", "text"}

Next ==
    \/ SetupEntry
    \/ \E r \in ReqIds, status \in Statuses : Respond(r, status)
    \/ \E r \in ReqIds : ConnectFails(r)
    \/ \E r \in ReqIds : TimeoutElapses(r)
    \/ \E r \in ReqIds, kind \in FetchBodyKinds, fwd \in {"skip", "raise"} : BodyArrives(r, kind, fwd)
    \/ TickFires
    \/ CooldownEnds
    \/ DeferredRefresh
    \/ PressReload
    \/ PressRestart

Spec == Init /\ [][Next]_vars

(* --------------------- __init__.async_unload_entry -------------------- *)

\* The cycles after the host cancelled the background tasks of the entry:
\* a refresh started by the polling timer runs in such a task and ends
\* there; a refresh awaited by a button press runs in the task of the
\* press and goes on.
AfterTasksCancelled(cy) ==
    [s \in Slots |-> IF cy[s].kind = "scheduled" THEN NoCycle ELSE cy[s]]

\* The requests of the cycles that were cancelled are dropped.
AfterFetchesCancelled(rq, cy) ==
    [r \in ReqIds |->
        IF r \notin {PROBE, POST} /\ cy[r[1]].kind = "scheduled" THEN NoRequest ELSE rq[r]]

\* async_unload_entry.  The platforms are unloaded: the entities are
\* removed, and with its last listener the coordinator's polling timer and
\* debouncer are cancelled.  Then the coordinator is popped from hass.data
\* and, the entry being the last one, the services are removed.  When the
\* platforms do not unload, nothing is removed.
UnloadEntry(unload_ok) ==
    /\ UNCHANGED aux_vars
    /\ entry_state = "loaded"
    /\ setup_pc = "idle"
    /\ IF unload_ok
       THEN /\ platforms' = {}
            /\ unsub_refresh' = FALSE
            /\ debounce' = DebouncerCancelled(debounce)
            /\ hass_data' = hass_data \ {ENTRY}
            /\ services' = (services /\ hass_data' # {})
            /\ entry_state' = "not_loaded"
            /\ cycle' = AfterTasksCancelled(cycle)
            /\ req' = AfterFetchesCancelled(req, cycle)
       ELSE /\ entry_state' = "failed_unload"
            /\ UNCHANGED << registry_vars, unsub_refresh, debounce, cycle, req >>
    /\ UNCHANGED << setup_pc, setup_result, coordinator_vars, press_pc, press,
                    owed, dev_gen, next_cycle >>

NextUnload ==
    \/ SetupEntry
    \/ \E r \in ReqIds, status \in {200, 401} : Respond(r, status)
    \/ \E r \in ReqIds : TimeoutElapses(r)
    \/ \E r \in ReqIds, fwd \in {"skip", "raise"} : BodyArrives(r, "json", fwd)
    \/ TickFires
    \/ CooldownEnds
    \/ DeferredRefresh
    \/ PressReload
    \/ \E unload_ok \in BOOLEAN : UnloadEntry(unload_ok)

SpecUnload == Init /\ [][NextUnload]_vars

(* ------------------ config_flow.AkariOptionsFlow ---------------------- *)

\* async_step_init with user input: the new url is built from the current
\* host and the port entered, a client is built for it and the key
\* entered, and its get_status is awaited.
OptionsSubmit(port, key) ==
    /\ entry_state = "loaded"
    /\ flow.pc # "checking"
    /\ flow' = [pc |-> "checking",
                url |-> BuildApiUrl(ParseUrl(entry_data.api_url).hostname, port),
                key |-> key,
                q |-> NewRequest("GET", API_STATUS, 0),
                errors |-> ""]
    /\ UNCHANGED << main_vars_but_flow, call, entry_data, client >>

\* Lines 302-317 once get_status is over: the form again with an error, or
\* the entry's data updated and the flow finished; an exception that is
\* neither of the client's two leaves the step.
OptionsCheckDone(f, q) ==
    CASE q.ph = "AkariAuthError" ->
            /\ flow' = [f EXCEPT !.pc = "form", !.q = NoRequest, !.errors = "invalid_auth"]
            /\ UNCHANGED entry_data
      [] q.ph = "AkariConnectionError" ->
            /\ flow' = [f EXCEPT !.pc = "form", !.q = NoRequest, !.errors = "cannot_connect"]
            /\ UNCHANGED entry_data
      [] q.ph = "returned" ->
            /\ flow' = [f EXCEPT !.pc = "done", !.q = NoRequest]
            /\ entry_data' = [entry_data EXCEPT !.api_url = f.url, !.api_key = f.key]
      [] q.ph = "raw" ->
            /\ flow' = [f EXCEPT !.pc = "raised", !.q = NoRequest]
            /\ UNCHANGED entry_data
      [] OTHER ->
            /\ flow' = [f EXCEPT !.q = q]
            /\ UNCHANGED entry_data

\* The device answers the flow's get_status.
OptionsRespond(status) ==
    /\ flow.q.ph = "headers"
    /\ OptionsCheckDone(flow, AfterStatus(flow.q, status))
    /\ UNCHANGED << main_vars_but_flow, client, call >>

\* The body of the answer arrives.
OptionsBody(kind) ==
    /\ flow.q.ph = "body"
    /\ OptionsCheckDone(flow, AfterBody(flow.q, kind, DeviceDocument(API_STATUS, dev_gen)))
    /\ UNCHANGED << main_vars_but_flow, client, call >>

NextOptions ==
    \/ SetupEntry
    \/ \E r \in ReqIds : Respond(r, 200)
    \/ \E r \in ReqIds, fwd \in {"skip", "raise"} : BodyArrives(r, "json", fwd)
    \/ TickFires
    \/ \E port \in Ports, key \in Keys : OptionsSubmit(port, key)
    \/ \E status \in {200, 401, 500} : OptionsRespond(status)
    \/ \E kind \in FetchBodyKinds : OptionsBody(kind)

SpecOptions == Init /\ [][NextOptions]_vars

(* ------------------------- reading the views -------------------------- *)

\* The values a snapshot holds at the end of a path.
Leaves ==
    { Null, Bool(TRUE), Bool(FALSE), Str("Running"), Str("disabled"), Str("OK"),
      Str("1"), Num(0), Num(1), EmptyMap }

\* The snapshots the views are read against: none, an empty one, and
\* snapshots whose status part is a leaf, or holds one below "modules" or
\* below "modules", "mqtt".
Snapshots ==
    LET StatusDocs ==
            Leaves \cup { Map("modules" :> l) : l \in Leaves }
                   \cup { Map("modules" :> Map("mqtt" :> l)) : l \in Leaves }
        InfoDocs ==
            { Null, Map("version" :> Str("1.0")), Map("overlay_active" :> Bool(TRUE)) }
    IN  {Null, EmptyMap} \cup { Snapshot(st, si) : st \in StatusDocs, si \in InfoDocs }

\* The field paths read: data_path of the descriptions, their prefixes, and
\* a path one key longer.
FieldPaths ==
    ViewPaths \cup { <<"status">>, <<"status", "modules">>,
                     <<"status", "modules", "mqtt", "state">> }

\* native_value, _get_value, is_on and device_info are evaluated against a
\* snapshot and a path.
ReadInput(S, P) ==
    /\ view' = ReadViews(S, P)
    /\ UNCHANGED << main_vars_but_view, call, entry_data, client, flow, svc, cfg >>

\* The host reads the state of a mounted entity: the properties are
\* evaluated against coordinator.data.
ReadEntity(P) ==
    /\ platforms # {}
    /\ view' = ReadViews(data, P)
    /\ UNCHANGED << main_vars_but_view, call, entry_data, client, flow, svc, cfg >>

NextViews == \E S \in Snapshots, P \in FieldPaths : ReadInput(S, P)

SpecViews == Init /\ [][NextViews]_vars

NextEntity ==
    \/ SetupEntry
    \/ \E r \in ReqIds : Respond(r, 200)
    \/ \E r \in ReqIds, kind \in {"json", "empty"}, fwd \in {"skip", "raise"} : BodyArrives(r, kind, fwd)
    \/ TickFires
    \/ \E P \in ViewPaths : ReadEntity(P)

SpecEntity == Init /\ [][NextEntity]_vars

(* ------------------ services and client.get_devices ------------------- *)

\* A call of _request from its start to its end, for a device that answers
\* with this status and this body.
RequestOutcome(method, path, status, kind, doc) ==
    LET q == AfterStatus(NewRequest(method, path, 0), status)
    IN  IF q.ph = "body" THEN AfterBody(q, kind, doc) ELSE q

\* API_CONFIG_SECTION.format(section=section)
ConfigSectionPath(section) == <<"/api/config", section>>

\* As RestartNotice, for a handler that appends the notice always.
RestartNotice_always(result) == TRUE

\* result.get("restart_required"), as a condition.
RestartNotice(result) == Truthy(DictGet(result, "restart_required"))

\* handle_update_config_section for a known entry, once
\* client.update_config_section is over with q: the error notice, or the
\* success notice with its message; an exception that is neither of the
\* client's two, or raised by result.get, leaves the handler.
handle_update_config_section(section, q) ==
    LET called == [NoService EXCEPT !.op = "update_config_section",
                                    !.section = section,
                                    !.outcome = q.ph, !.body = q.val]
    IN  IF q.ph \in {"AkariConnectionError", "AkariAuthError"}
        THEN [called EXCEPT !.notices =
                 << [id |-> <<"akari", ENTRY, "update_error">>,
                     message |-> <<"Error updating config section", section, q.ph>>] >>]
        ELSE IF q.ph = "raw" THEN [called EXCEPT !.raised = "raw"]
        ELSE IF ~IsDict(q.val) THEN [called EXCEPT !.raised = "AttributeError"]
        ELSE [called EXCEPT !.notices =
                 << [id |-> <<"akari", ENTRY, "updated", section>>,
                     message |-> <<"updated successfully", section>>
                                    \o (IF RestartNotice(q.val)
                                        THEN <<"Restart required">> ELSE <<>>)] >>]

\* handle_get_config_section for a known entry, once
\* client.get_config_section is over with q: the error notice, or the
\* notice that shows the section.
handle_get_config_section(section, q) ==
    LET called == [NoService EXCEPT !.op = "get_config_section",
                                    !.section = section,
                                    !.outcome = q.ph, !.body = q.val]
    IN  IF q.ph \in {"AkariConnectionError", "AkariAuthError"}
        THEN [called EXCEPT !.notices =
                 << [id |-> <<"akari", ENTRY, "config_error">>,
                     message |-> <<"Error reading config section", section, q.ph>>] >>]
        ELSE IF q.ph = "raw" THEN [called EXCEPT !.raised = "raw"]
        ELSE [called EXCEPT !.result = q.val,
                            !.notices =
                 << [id |-> <<"akari", ENTRY, "config", section>>,
                     message |-> <<"Config section", section, q.val>>] >>]

\* As get_devices, returning the parsed body as it is.
get_devices_raw(result) == result

\* AkariApiClient.get_devices from the value _request returned: a list as
\* it is, else result.get("devices", []).
get_devices(result) ==
    IF result.k = "list" THEN result
    ELSE IF ~IsDict(result) THEN Raises
    ELSE IF "devices" \in DOMAIN result.m THEN result.m["devices"]
    ELSE List(<<>>)

\* handle_get_devices for a known entry, once the request of
\* client.get_devices is over with q: the error notice, or the notice that
\* shows the devices.
handle_get_devices(q) ==
    LET called == [NoService EXCEPT !.op = "get_devices",
                                    !.outcome = q.ph, !.body = q.val]
        devices == get_devices(q.val)
    IN  IF q.ph \in {"AkariConnectionError", "AkariAuthError"}
        THEN [called EXCEPT !.notices =
                 << [id |-> <<"akari", ENTRY, "devices_error">>,
                     message |-> <<"Error fetching devices", q.ph>>] >>]
        ELSE IF q.ph = "raw" THEN [called EXCEPT !.raised = "raw"]
        ELSE IF devices = Raises THEN [called EXCEPT !.raised = "AttributeError"]
        ELSE [called EXCEPT !.result = devices,
                            !.notices =
                 << [id |-> <<"akari", ENTRY, "devices">>,
                     message |-> <<"Devices on", ENTRY, devices>>] >>]

\* The bodies a device answers a PUT of a config section with.
UpdateBodies ==
    { Map("restart_required" :> Bool(TRUE)), Map("restart_required" :> Bool(FALSE)),
      Map("status" :> Str("ok")), Map("restart_required" :> Null),
      Map("restart_required" :> Bool(TRUE) @@ "status" :> Str("ok")), EmptyMap }

\* The device lists, and the bodies a device answers GET /api/devices with.
DeviceLists ==
    { <<>>, << Map("id" :> Str("d1")) >>,
      << Map("id" :> Str("d1")), Map("id" :> Str("d2")) >> }

DevicesBodies ==
    { List(L) : L \in DeviceLists }
        \cup { Map("devices" :> List(L)) : L \in DeviceLists }
        \cup { Map("devices" :> List(L) @@ "count" :> Num(Len(L))) : L \in DeviceLists }
        \cup { EmptyMap, Null }

\* The update_config_section service is called for the entry.
UpdateConfigSection(section, status, kind, doc) ==
    /\ svc' = handle_update_config_section(
                  section,
                  RequestOutcome("PUT", ConfigSectionPath(section), status, kind, doc))
    /\ UNCHANGED << main_vars_but_view, call, entry_data, client, flow, view, cfg >>

\* The get_config_section service is called for the entry.
GetConfigSection(section, status, kind, doc) ==
    /\ svc' = handle_get_config_section(
                  section,
                  RequestOutcome("GET", ConfigSectionPath(section), status, kind, doc))
    /\ UNCHANGED << main_vars_but_view, call, entry_data, client, flow, view, cfg >>

\* The get_devices service is called for the entry.
GetDevices(status, kind, doc) ==
    /\ svc' = handle_get_devices(RequestOutcome("GET", API_DEVICES, status, kind, doc))
    /\ UNCHANGED << main_vars_but_view, call, entry_data, client, flow, view, cfg >>

NextService ==
    \/ \E section \in Range(CONFIG_SECTIONS), status \in {200, 401, 500},
          kind \in BodyKinds, doc \in UpdateBodies :
            \/ UpdateConfigSection(section, status, kind, doc)
            \/ GetConfigSection(section, status, kind, doc)
    \/ \E status \in {200, 401, 500}, kind \in BodyKinds, doc \in DevicesBodies :
            GetDevices(status, kind, doc)

SpecService == Init /\ [][NextService]_vars

(* ---------------- config_flow.AkariManagerConfigFlow ------------------ *)

\* The devices of the network: the id in the MQTT topic each announces
\* itself under, and the status each serves.  The first serves an id, which
\* is not its topic id; the second serves none.
FlowHosts == {"h1", "h2"}

TopicId(host) == IF host = "h1" THEN "t1" ELSE "d2"

StatusOf(host) ==
    IF host = "h1"
    THEN Map("id" :> Str("d1") @@ "name" :> Str("Akari"))
    ELSE Map("modules" :> Map("mqtt" :> Str("running")))

\* status.get("id") or status.get("device_id") or fallback
ResolvedId(status, fallback) ==
    IF Truthy(DictGet(status, "id")) THEN DictGet(status, "id").s
    ELSE IF Truthy(DictGet(status, "device_id")) THEN DictGet(status, "device_id").s
    ELSE fallback

\* entry.data.get(CONF_DEVICE_ID) of the entries of the domain.
ExistingIds(c) == { c.entries[i].data.device_id : i \in 1..Len(c.entries) }

\* A flow that is neither unused nor finished.
InProgress(fl) == fl.step \notin {"none", "created", "aborted", "raised"}

\* As UniqueIdAbort, for a flow that never aborts.
UniqueIdAbort_never(c, f, id) == ""

\* async_set_unique_id followed by _abort_if_unique_id_configured: the reason
\* the flow aborts for, or none.  The host aborts a flow that takes the
\* unique id of another flow in progress, and one whose unique id an entry
\* has.
UniqueIdAbort(c, f, id) ==
    IF \E g \in FlowIds \ {f} : InProgress(c.flows[g]) /\ c.flows[g].unique_id = id
    THEN "already_in_progress"
    ELSE IF \E i \in 1..Len(c.entries) : c.entries[i].unique_id = id
    THEN "already_configured"
    ELSE ""

\* As EntryData, with the key the step was entered with.
EntryData_pending(fl, resolved_id) ==
    [device_id |-> resolved_id,
     api_url |-> BuildApiUrl(fl.pending.host, fl.pending.port),
     api_key |-> fl.pending.api_key]

\* The data async_step_confirm creates the entry with (lines 238-242).
EntryData(fl, resolved_id) ==
    [device_id |-> resolved_id,
     api_url |-> BuildApiUrl(fl.pending.host, fl.pending.port),
     api_key |-> fl.api_key]

\* A flow is started, or the slot of a finished one is used for a new flow,
\* and the user chooses manual entry.
StartManual(f) ==
    /\ ~InProgress(cfg.flows[f])
    /\ cfg' = [cfg EXCEPT !.flows[f] = [NoConfigFlow EXCEPT !.step = "manual"]]
    /\ UNCHANGED << main_vars_but_view, call, entry_data, client, flow, view, svc >>

\* A flow is started with discovery, while these hosts are announced by
\* retained messages: the ids not yet configured are offered, or the manual
\* form is shown when there is none.
StartDiscovery(f, announced) ==
    LET new_devices == { TopicId(h) : h \in announced } \ ExistingIds(cfg)
    IN  /\ ~InProgress(cfg.flows[f])
        /\ cfg' = [cfg EXCEPT !.flows[f] =
                      IF new_devices = {}
                      THEN [NoConfigFlow EXCEPT !.step = "manual",
                                                !.errors = "mqtt_no_devices_found"]
                      ELSE [NoConfigFlow EXCEPT !.step = "mqtt_discovery",
                                                !.offered = new_devices]]
        /\ UNCHANGED << main_vars_but_view, call, entry_data, client, flow, view, svc >>

\* The user selects a discovered device: the confirm form is shown.
SelectDevice(f, host) ==
    /\ cfg.flows[f].step = "mqtt_discovery"
    /\ TopicId(host) \in cfg.flows[f].offered
    /\ cfg' = [cfg EXCEPT !.flows[f].step = "confirm",
                          !.flows[f].pending =
                              [device_id |-> TopicId(host), host |-> host,
                               port |-> DEFAULT_PORT, api_key |-> ""]]
    /\ UNCHANGED << main_vars_but_view, call, entry_data, client, flow, view, svc >>

\* The user submits the manual form: get_status is awaited.
ManualSubmit(f, host, key) ==
    /\ cfg.flows[f].step = "manual"
    /\ cfg' = [cfg EXCEPT !.flows[f].step = "manual_checking",
                          !.flows[f].errors = "",
                          !.flows[f].outcome = "",
                          !.flows[f].api_key = key,
                          !.flows[f].pending =
                              [device_id |-> "", host |-> host,
                               port |-> DEFAULT_PORT, api_key |-> ""],
                          !.flows[f].client = NewClient(BuildApiUrl(host, DEFAULT_PORT), key)]
    /\ UNCHANGED << main_vars_but_view, call, entry_data, client, flow, view, svc >>

\* get_status of the manual step is over (lines 170-187).
ManualCheckDone(f, status, kind) ==
    LET host == cfg.flows[f].pending.host
        q == RequestOutcome("GET", API_STATUS, status, kind, StatusOf(host))
        fl == [cfg.flows[f] EXCEPT !.outcome = q.ph]
        device_id == ResolvedId(q.val, host)
        abort == UniqueIdAbort(cfg, f, device_id)
    IN  /\ fl.step = "manual_checking"
        /\ cfg' = [cfg EXCEPT !.flows[f] =
              IF q.ph = "AkariAuthError"
              THEN [fl EXCEPT !.step = "manual", !.errors = "invalid_auth"]
              ELSE IF q.ph = "AkariConnectionError"
              THEN [fl EXCEPT !.step = "manual", !.errors = "cannot_connect"]
              ELSE IF q.ph = "raw" \/ ~IsDict(q.val)
              THEN [fl EXCEPT !.step = "raised"]
              ELSE IF abort # ""
              THEN [fl EXCEPT !.step = "aborted", !.unique_id = device_id, !.reason = abort]
              ELSE [fl EXCEPT !.step = "confirm", !.unique_id = device_id,
                              !.pending = [device_id |-> device_id, host |-> fl.pending.host,
                                           port |-> fl.pending.port, api_key |-> fl.api_key]]]
        /\ UNCHANGED << main_vars_but_view, call, entry_data, client, flow, view, svc >>

\* The user submits the confirm form with a key: get_status is awaited.
ConfirmSubmit(f, key) ==
    LET fl == cfg.flows[f]
    IN  /\ fl.step = "confirm"
        /\ cfg' = [cfg EXCEPT !.flows[f].step = "confirm_checking",
                              !.flows[f].errors = "",
                              !.flows[f].outcome = "",
                              !.flows[f].api_key = key,
                              !.flows[f].client =
                                  NewClient(BuildApiUrl(fl.pending.host, fl.pending.port), key)]
        /\ UNCHANGED << main_vars_but_view, call, entry_data, client, flow, view, svc >>

\* get_status of the confirm step is over (lines 224-243): the form again
\* with an error, the flow aborted, or the entry created; the host replaces
\* an entry of the same unique id by the new one.
ConfirmCheckDone(f, status, kind) ==
    LET host == cfg.flows[f].pending.host
        q == RequestOutcome("GET", API_STATUS, status, kind, StatusOf(host))
        fl == [cfg.flows[f] EXCEPT !.outcome = q.ph]
        resolved_id == ResolvedId(q.val, fl.pending.device_id)
        abort == UniqueIdAbort(cfg, f, resolved_id)
        others == SelectSeq(cfg.entries, LAMBDA e : e.unique_id # resolved_id)
    IN  /\ fl.step = "confirm_checking"
        /\ IF q.ph = "AkariAuthError"
           THEN cfg' = [cfg EXCEPT !.flows[f] =
                           [fl EXCEPT !.step = "confirm", !.errors = "invalid_auth"]]
           ELSE IF q.ph = "AkariConnectionError"
           THEN cfg' = [cfg EXCEPT !.flows[f] =
                           [fl EXCEPT !.step = "confirm", !.errors = "cannot_connect"]]
           ELSE IF q.ph = "raw" \/ ~IsDict(q.val)
           THEN cfg' = [cfg EXCEPT !.flows[f] = [fl EXCEPT !.step = "raised"]]
           ELSE IF abort # ""
           THEN cfg' = [cfg EXCEPT !.flows[f] =
                           [fl EXCEPT !.step = "aborted", !.unique_id = resolved_id,
                                      !.reason = abort]]
           ELSE cfg' = [entries |-> Append(others, [unique_id |-> resolved_id,
                                                    data |-> EntryData(fl, resolved_id)]),
                        flows |-> [cfg.flows EXCEPT ![f] =
                                      [fl EXCEPT !.step = "created",
                                                 !.unique_id = resolved_id]]]
        /\ UNCHANGED << main_vars_but_view, call, entry_data, client, flow, view, svc >>

NextConfigFlow ==
    \/ \E f \in FlowIds : StartManual(f)
    \/ \E f \in FlowIds, announced \in SUBSET FlowHosts : StartDiscovery(f, announced)
    \/ \E f \in FlowIds, host \in FlowHosts : SelectDevice(f, host)
    \/ \E f \in FlowIds, host \in FlowHosts, key \in {"", "k1"} : ManualSubmit(f, host, key)
    \/ \E f \in FlowIds, status \in {200, 401, 500}, kind \in {"json", "empty"} :
          ManualCheckDone(f, status, kind)
    \/ \E f \in FlowIds, key \in {"", "k1"} : ConfirmSubmit(f, key)
    \/ \E f \in FlowIds, status \in {200, 401, 500}, kind \in {"json", "empty"} :
          ConfirmCheckDone(f, status, kind)

SpecConfigFlow == Init /\ [][NextConfigFlow]_vars

\* One config flow, and the options flow of the loaded entry.
NextCredentials ==
    \/ SetupEntry
    \/ \E r \in ReqIds : Respond(r, 200)
    \/ \E r \in ReqIds : BodyArrives(r, "json", "skip")
    \/ \E port \in Ports, key \in Keys : OptionsSubmit(port, key)
    \/ \E status \in {200, 401, 500} : OptionsRespond(status)
    \/ \E kind \in FetchBodyKinds : OptionsBody(kind)
    \/ StartManual(1)
    \/ \E announced \in SUBSET FlowHosts : StartDiscovery(1, announced)
    \/ \E host \in FlowHosts : SelectDevice(1, host)
    \/ \E host \in FlowHosts, key \in {"", "k1"} : ManualSubmit(1, host, key)
    \/ \E status \in {200, 401, 500} : ManualCheckDone(1, status, "json")
    \/ \E key \in {"", "k1"} : ConfirmSubmit(1, key)
    \/ \E status \in {200, 401, 500} : ConfirmCheckDone(1, status, "json")

SpecCredentials == Init /\ [][NextCredentials]_vars

(* ------------------ the transport client on its own ------------------- *)

\* The client's methods: the method and path each passes to _request.
ClientCalls ==
    { <<"GET", API_STATUS>>, <<"GET", API_SYSTEM_INFO>>, <<"GET", "/api/config">>,
      <<"GET", "/api/config/mqtt">>, <<"PUT", "/api/config/mqtt">>,
      <<"POST", API_RELOAD>>, <<"POST", API_RESTART>>,
      <<"GET", "/api/devices">> }

main_vars ==
    << entry_state, setup_pc, setup_result, hass_data, services, platforms,
       data, origin, last_update_success, last_exception, unsub_refresh,
       debounce, cycle, req, press_pc, press, owed, dev_gen, next_cycle,
       entry_data, client, flow, view, svc, cfg >>

\* A method of the client calls _request(method, path).
CallStart(c) ==
    /\ call = NoCall
    /\ call' = [NoCall EXCEPT !.method = c[1], !.path = c[2],
                              !.headers = Headers(client),
                              !.q = NewRequest(c[1], c[2], 0)]
    /\ UNCHANGED main_vars

\* session.request returns a response with this status.
CallRespond(status) ==
    /\ call.q.ph = "headers"
    /\ call' = [call EXCEPT !.status = status, !.q = AfterStatus(call.q, status)]
    /\ UNCHANGED main_vars

\* session.request raises aiohttp.ClientConnectionError.
CallConnectFails ==
    /\ call.q.ph = "headers"
    /\ call' = [call EXCEPT !.transport = "connect_error", !.q = AfterConnectError(call.q)]
    /\ UNCHANGED main_vars

\* REQUEST_TIMEOUT seconds have passed since _request was called.
CallTimeout ==
    /\ call.q.ph \in {"headers", "body"}
    /\ ~call.q.elapsed
    /\ call' = [call EXCEPT !.transport = IF call.q.ph = "headers" THEN "timeout" ELSE @,
                            !.q = AfterTimeout(call.q)]
    /\ UNCHANGED main_vars

\* The body arrives and response.json() parses it.
CallBody(kind) ==
    /\ call.q.ph = "body"
    /\ call' = [call EXCEPT !.body = kind,
                            !.q = AfterBody(call.q, kind, DeviceDocument(call.path, 0))]
    /\ UNCHANGED main_vars

NextRequest ==
    \/ \E c \in ClientCalls : CallStart(c)
    \/ \E status \in Statuses : CallRespond(status)
    \/ CallConnectFails
    \/ CallTimeout
    \/ \E kind \in BodyKinds : CallBody(kind)

SpecRequest == Init /\ [][NextRequest]_vars

\* A client is built for this key: empty is the mode without authentication.
ClientBuilt(key) ==
    /\ call = NoCall
    /\ client = NoClient
    /\ client' = NewClient(BuildApiUrl(HOST, DEFAULT_PORT), key)
    /\ UNCHANGED << main_vars_but_view, call, entry_data, flow, view, svc, cfg >>

NextHeaders ==
    \/ \E key \in Keys \cup {""} : ClientBuilt(key)
    \/ \E c \in ClientCalls : CallStart(c)
    \/ \E status \in {200, 401} : CallRespond(status)
    \/ CallConnectFails
    \/ CallTimeout
    \/ CallBody("json")

SpecHeaders == Init /\ [][NextHeaders]_vars

(* ------------------------------ claims -------------------------------- *)

RunningCycles == { s \in Slots : Running(s) }

\* C1: the published snapshot is absent, or a mapping with exactly the two
\* parts status and system_info, both fetched by the same refresh cycle,
\* which is a cycle that has ended.
C1_SnapshotOfOneCycle ==
    \/ data = Null /\ origin = NoOrigin
    \/ /\ IsDict(data)
       /\ DOMAIN data.m = {"status", "system_info"}
       /\ origin.status = origin.system_info
       /\ origin.status \in 1..(next_cycle - 1)
       /\ \A s \in RunningCycles : cycle[s].id # origin.status

\* A later cycle's snapshot is published while another cycle is running,
\* after a cycle failed.
C1_Witness ==
    /\ data # Null
    /\ origin.status > 1
    /\ RunningCycles # {}

\* C2: at most one refresh cycle is running at any time.
C2_OneCycleInFlight == Cardinality(RunningCycles) <= 1

\* A step in which a running cycle ends as failed.
FailedCycleStep ==
    /\ \E s \in Slots : cycle[s].st = "run" /\ cycle'[s].st = "idle"
    /\ ~last_update_success'

\* C3: a failed cycle that follows a published snapshot leaves the snapshot
\* as it was: every view reads the value it read before, and only the
\* failure status changes.
C3_FailureKeepsSnapshot ==
    [][ (FailedCycleStep /\ data # Null) =>
            /\ data' = data
            /\ origin' = origin
            /\ \A path \in ViewPaths : native_value(data', path) = native_value(data, path)
            /\ last_exception' # "none" ]_vars

\* A cycle failed while a snapshot with a value at a view's path is served.
C3_Witness ==
    /\ ~last_update_success
    /\ data # Null
    /\ native_value(data, <<"system_info", "cpu_temp">>) # Null

\* C4: setup that ended because of an authorization failure, in the
\* connectivity check or in the first refresh, ended as abort and not as
\* not-ready.
C4_AuthFailureAborts ==
    setup_result.exc \in {"AkariAuthError", UpdateFailure("AkariAuthError")}
        => setup_result.outcome = "abort" /\ entry_state = "setup_error"

\* C5: setup that ended because of a connection error, in the connectivity
\* check or in the first refresh, ended as not-ready, which the host
\* retries, and not as abort.
C5_ConnectionFailureRetries ==
    setup_result.exc \in {"AkariConnectionError", UpdateFailure("AkariConnectionError")}
        => setup_result.outcome = "not_ready" /\ entry_state = "setup_retry"

\* The connectivity check ended with a connection error.
C5_Witness ==
    /\ setup_result.stage = "check"
    /\ setup_result.exc = "AkariConnectionError"

\* A step in which async_setup_entry ends because the connectivity check or
\* the first refresh failed.
SetupFailedStep ==
    /\ setup_pc # "idle"
    /\ setup_pc' = "idle"
    /\ setup_result'.stage \in {"check", "first_refresh"}

\* C6: while a coordinator is stored for the entry or a platform is
\* attached, that coordinator's first refresh has published a snapshot; and
\* a setup that ends because the connectivity check or the first refresh
\* failed leaves hass.data, the services and the platforms as they were.
C6_StoredAfterFirstRefresh ==
    /\ []((ENTRY \in hass_data \/ platforms # {} \/ services) => data # Null)
    /\ [][ SetupFailedStep =>
              /\ hass_data' = hass_data
              /\ services' = services
              /\ platforms' = platforms ]_vars

\* The coordinator is stored and the button platform attached.
C6_Witness ==
    /\ ENTRY \in hass_data
    /\ "button" \in platforms
    /\ entry_state = "loaded"

\* C7: nothing but UpdateFailed leaves a refresh cycle.
C7_OnlyUpdateFailed ==
    last_exception \in
        {"none", UpdateFailure("AkariAuthError"), UpdateFailure("AkariConnectionError")}

\* C8: a response with status 401 or 403 raises AkariAuthError, any other
\* status outside 200..299 raises AkariConnectionError, a connection
\* failure or a timeout raises AkariConnectionError, and the body is read
\* and a value returned for a status in 200..299 only.
C8_StatusClassification ==
    /\ call.status \in {401, 403} => call.q.ph = "AkariAuthError"
    /\ (call.status # 0 /\ call.status \notin 200..299 /\ call.status \notin {401, 403})
          => call.q.ph = "AkariConnectionError"
    /\ call.transport \in {"connect_error", "timeout"} => call.q.ph = "AkariConnectionError"
    /\ call.q.ph \in {"body", "returned", "raw"} => call.status \in 200..299

\* C9: once REQUEST_TIMEOUT has passed for a request, the request is over.
C9_TimeoutEndsRequest ==
    \A r \in ReqIds : req[r].elapsed => ~InFlight(r)

\* A step in which the polling timer fires.
ScheduledStep ==
    \E s \in Slots : cycle[s].st = "idle" /\ cycle'[s].st = "run" /\ cycle'[s].kind = "scheduled"

\* C10: while the refresh requested by a successful reload press is
\* outstanding, the polling timer does not fire.
C10_RefreshBeforeNextTick == [][ ScheduledStep => ~owed ]_vars

\* C11: no press of a button ends with an exception leaving async_press.
C11_PressNeverRaises == press.result \in {"none", "normal"}

\* C12: a press whose POST failed with AkariConnectionError has created a
\* notification.
C12_FailureIsNotified ==
    (press.logged /\ press.result = "normal") => press.notices # <<>>

\* A step in which the POST of a restart press is over and the press ends.
RestartEndsStep ==
    /\ press.action = "restart"
    /\ press_pc = "posting"
    /\ press_pc' # "posting"

\* C13: a restart press requests no refresh; the step that ends it starts
\* no cycle and leaves the coordinator, its debouncer and its timer as
\* they were; and when the POST succeeded the press has created exactly
\* one notification, the restart confirmation.
C13_RestartDoesNotRefresh ==
    /\ [](press.action = "restart" => press.refreshes = 0)
    /\ [][ RestartEndsStep =>
              /\ press_pc' = "idle"
              /\ UNCHANGED << coordinator_vars, debounce, unsub_refresh, cycle, owed, next_cycle >>
              /\ (press'.result = "normal" /\ ~press'.logged)
                    => press'.notices = << NotificationId("restart") >> ]_vars

\* A restart press whose POST succeeded has ended, with a snapshot
\* published.
C13_Witness ==
    /\ press.action = "restart"
    /\ press.result = "normal"
    /\ ~press.logged
    /\ press_pc = "idle"
    /\ data # Null

\* C14: once the entry is unloaded its polling timer is not armed, and
\* nothing writes the snapshot of the coordinator that was removed.
C14_UnloadDiscardsCycle ==
    /\ [](entry_state = "not_loaded" => ~unsub_refresh)
    /\ [][ entry_state = "not_loaded" => (data' = data /\ origin' = origin) ]_vars

\* A step in which a refresh cycle starts.
CycleStartsStep ==
    \E s \in Slots : cycle[s].st = "idle" /\ cycle'[s].st = "run"

\* C15: every refresh cycle is started with a client built from the entry's
\* current url and key; and a client's url and key change only when
\* async_setup_entry builds a new client.
C15_UpdateBuildsNewPairing ==
    /\ [][ CycleStartsStep =>
              client = NewClient(entry_data.api_url, entry_data.api_key) ]_vars
    /\ [][ client' # client => (setup_pc = "idle" /\ setup_pc' = "check") ]_vars

\* The value at the end of path P in S, None when a key is missing or a
\* value on the way is not a mapping.
RECURSIVE Lookup(_, _)
Lookup(S, P) ==
    IF P = <<>> THEN S
    ELSE IF S.k = "map" /\ Head(P) \in DOMAIN S.m THEN Lookup(S.m[Head(P)], Tail(P))
    ELSE Null

\* C16: a read of a field path (of one key or more) against a snapshot, in
\* the sensor and in the binary sensor, gives the nested value when every
\* key is found in a mapping, None otherwise, and never raises.
C16_PathReadIsTotal ==
    view.path # <<>> =>
        /\ view.value = Lookup(view.snapshot, view.path)
        /\ view.located = Lookup(view.snapshot, view.path)
        /\ view.value # Raises
        /\ view.located # Raises

\* A path was read whose second key is found at a string, not a mapping.
C16_Witness ==
    /\ view.path = <<"status", "modules", "mqtt">>
    /\ Lookup(view.snapshot, <<"status", "modules">>).k = "str"
    /\ view.value = Null

\* C17: the binary sensor is unknown for a null or absent value, the value
\* itself for a boolean, on for a string exactly when its lower case is one
\* of true, ok, running, active, 1, and the truth value otherwise.
C17_BooleanAdapter ==
    view.path # <<>> =>
        LET v == view.located
        IN  /\ v = Null => view.is_on = Null
            /\ v.k = "bool" => view.is_on = v
            /\ v.k = "str" => view.is_on = Bool(Lower(v.s) \in {"true", "ok", "running", "active", "1"})
            /\ v.k \in {"num", "map", "list"} => view.is_on = Bool(Truthy(v))
            /\ v = Str("Running") => view.is_on = Bool(TRUE)
            /\ v = Str("disabled") => view.is_on = Bool(FALSE)
            /\ v = Num(0) => view.is_on = Bool(FALSE)
            /\ v = Num(1) => view.is_on = Bool(TRUE)
            /\ view.is_on = Bool(FALSE) => v # Null

\* The binary sensor read the string "Running".
C17_Witness ==
    /\ view.located = Str("Running")
    /\ view.is_on = Bool(TRUE)

\* The requests a step issues.
IssuedInStep == { r \in ReqIds : req[r].ph = "none" /\ req'[r].ph # "none" }

\* C20: a read of a view issues no request and starts no cycle; a step that
\* starts a cycle issues exactly GET status and GET system-info; and no
\* other step issues a fetch of a cycle.
C20_ViewsDoNoIO ==
    /\ [][ view' # view => UNCHANGED << req, cycle, next_cycle, call, flow >> ]_vars
    /\ [][ CycleStartsStep =>
              /\ Cardinality(IssuedInStep) = 2
              /\ { <<req'[r].method, req'[r].path>> : r \in IssuedInStep }
                    = { <<"GET", API_STATUS>>, <<"GET", API_SYSTEM_INFO>> } ]_vars
    /\ [][ ~CycleStartsStep => IssuedInStep \subseteq {PROBE, POST} ]_vars

\* A mounted view was read against the published snapshot while a refresh
\* cycle is running.
C20_Witness ==
    /\ Cardinality(platforms) >= 2
    /\ data # Null
    /\ view.snapshot = data
    /\ view.path \in ViewPaths
    /\ \E s \in Slots : Running(s) /\ cycle[s].kind = "scheduled"

\* The message of the success notice of the last update, or none.
UpdatedMessage ==
    IF svc.notices # <<>> /\ svc.notices[1].id[3] = "updated"
    THEN svc.notices[1].message
    ELSE <<>>

\* C18: after a successful PUT of a config section the message carries the
\* restart-required notice when the answer holds restart_required true, and
\* does not when it holds false or does not hold the field.
C18_RestartNoticeIffRequired ==
    (svc.op = "update_config_section" /\ UpdatedMessage # <<>>) =>
        LET answer == svc.body
            noticed == "Restart required" \in Range(UpdatedMessage)
        IN  /\ ("restart_required" \in DOMAIN answer.m
                   /\ answer.m["restart_required"] = Bool(TRUE)) => noticed
            /\ ("restart_required" \in DOMAIN answer.m
                   /\ answer.m["restart_required"] = Bool(FALSE)) => ~noticed
            /\ "restart_required" \notin DOMAIN answer.m => ~noticed
            /\ noticed => "restart_required" \in DOMAIN answer.m

\* A section was updated and the answer holds restart_required false.
C18_Witness ==
    /\ svc.op = "update_config_section"
    /\ svc.body = Map("restart_required" :> Bool(FALSE))
    /\ UpdatedMessage = <<"updated successfully", svc.section>>

\* C19: get_devices gives a bare list as it is, gives the devices field of
\* an object, and so the same list for both shapes.
C19_DevicesNormalized ==
    (svc.op = "get_devices" /\ svc.raised = "none" /\ svc.notices[1].id[3] = "devices") =>
        /\ svc.body.k = "list" =>
              /\ svc.result = svc.body
              /\ get_devices(Map("devices" :> svc.body)) = svc.result
        /\ (IsDict(svc.body) /\ "devices" \in DOMAIN svc.body.m) =>
              /\ svc.result = svc.body.m["devices"]
              /\ svc.result.k = "list"
              /\ get_devices(svc.result) = svc.result

\* get_devices was called for an object that holds a list of one device.
C19_Witness ==
    /\ svc.op = "get_devices"
    /\ svc.body = Map("devices" :> List(<< Map("id" :> Str("d1")) >>))
    /\ svc.result = List(<< Map("id" :> Str("d1")) >>)
    /\ svc.raised = "none"

\* C21: a request of the client carries X-API-Key with the client's key
\* when the key is not empty, and no X-API-Key field when it is empty.
C21_KeyHeaderIffKey ==
    call.method # "" =>
        LET sent == { h \in call.headers : h[1] = "X-API-Key" }
        IN  /\ client.api_key # "" => sent = {<<"X-API-Key", client.api_key>>}
            /\ client.api_key = "" => sent = {}

\* A request of a client built with a key was sent and answered.
C21_Witness ==
    /\ call.q.ph = "returned"
    /\ client.api_key = "k2"
    /\ <<"X-API-Key", "k2">> \in call.headers

\* C22: a cycle starts with both fetches issued and neither answered; while
\* it runs no fetch of it has failed and one is still unfinished; and it
\* ends either as failed or with the snapshot of its two returned fetches,
\* the second of which returned in that step.
C22_GatherEndsCycle ==
    [][ \A s \in Slots :
          LET qs == req[Fetch(s, "status")]
              qi == req[Fetch(s, "system_info")]
          IN  /\ (cycle'[s].st = "run" /\ cycle'[s].id # cycle[s].id) =>
                    /\ req'[Fetch(s, "status")].ph = "headers"
                    /\ req'[Fetch(s, "system_info")].ph = "headers"
              /\ Running(s) =>
                    /\ qs.ph \notin Raised /\ qi.ph \notin Raised
                    /\ qs.ph # "returned" \/ qi.ph # "returned"
              /\ (Running(s) /\ cycle'[s].id # cycle[s].id) =>
                    \/ ~last_update_success'
                    \/ /\ origin' = [status |-> cycle[s].id, system_info |-> cycle[s].id]
                       /\ "returned" \in {qs.ph, qi.ph}
                       /\ "body" \in {qs.ph, qi.ph} ]_vars

\* A cycle has failed while another cycle is running with one fetch
\* returned and the other not yet answered.
C22_Witness ==
    /\ ~last_update_success
    /\ last_exception = UpdateFailure("AkariConnectionError")
    /\ \E s \in Slots :
          /\ Running(s)
          /\ req[Fetch(s, "status")].ph = "returned"
          /\ req[Fetch(s, "system_info")].ph = "headers"

\* C23: the events of a reload press are, in this order, the POST, the
\* request of a refresh and the confirmation; the refresh is requested in
\* the step in which the POST returns; and a press whose POST failed has
\* requested no refresh and shown no confirmation.
C23_ReloadPressOrder ==
    /\ [](press.action = "reload" =>
            /\ \E n \in 1..3 :
                  press.events = SubSeq(<<"post", "request_refresh", "notify">>, 1, n)
            /\ press_pc = "posting" => press.events = <<"post">>
            /\ press_pc = "refreshing" => press.events = <<"post", "request_refresh">>
            /\ (press.result # "none" /\ (press.logged \/ press.result # "normal")) =>
                  /\ press.events = <<"post">>
                  /\ press.refreshes = 0
                  /\ press.notices = <<>>
            /\ (press.result = "normal" /\ ~press.logged) =>
                  /\ press.events = <<"post", "request_refresh", "notify">>
                  /\ press.refreshes = 1
                  /\ press.notices = << NotificationId("reload") >>)
    /\ [][ (press.action = "reload" /\ press'.refreshes > press.refreshes) =>
              (press_pc = "posting" /\ req[POST].ph = "body") ]_vars

\* A reload press has ended with its confirmation after the refresh it
\* requested published a snapshot.
C23_Witness ==
    /\ press.action = "reload"
    /\ press_pc = "idle"
    /\ press.events = <<"post", "request_refresh", "notify">>
    /\ data # Null
    /\ origin.status > 1

\* C24: a call of one of the three services for the entry creates exactly
\* one notification: the error notice, naming the section or the action and
\* the error, when the client raised AkariConnectionError or AkariAuthError,
\* and the success notice otherwise; and the call leaves the snapshot as it
\* was.
C24_OneNoticePerCall ==
    /\ [](svc.op # "" =>
            /\ Len(svc.notices) = 1
            /\ LET notice == svc.notices[1]
                   failed == svc.outcome \in {"AkariConnectionError", "AkariAuthError"}
                   errors == {"config_error", "update_error", "devices_error"}
               IN  /\ failed => /\ notice.id[3] \in errors
                                /\ svc.outcome \in Range(notice.message)
                                /\ svc.op # "get_devices" => svc.section \in Range(notice.message)
                   /\ ~failed => notice.id[3] \notin errors)
    /\ [][ svc' # svc => (data' = data /\ origin' = origin) ]_vars

\* C25: when no setup is under way, hass.data holds the entry exactly when
\* its setup succeeded and it was not unloaded since, and the services are
\* registered exactly when hass.data holds an entry; and an unload whose
\* platforms do not unload leaves hass.data and the services as they were.
C25_DataKeysAreLoadedEntries ==
    /\ [](setup_pc = "idle" =>
            /\ ENTRY \in hass_data <=> entry_state \in {"loaded", "failed_unload"}
            /\ services <=> hass_data # {})
    /\ [][ (entry_state = "loaded" /\ entry_state' = "failed_unload") =>
              UNCHANGED << hass_data, services, coordinator_vars >> ]_vars

\* C27: no two config entries have the same device id; an entry is created
\* only for a device id that no entry has; and discovery offers no device id
\* that an entry has.
C27_DeviceIdsAreUnique ==
    /\ [](\A i, j \in 1..Len(cfg.entries) :
             cfg.entries[i].data.device_id = cfg.entries[j].data.device_id => i = j)
    /\ [][ /\ cfg'.entries # cfg.entries =>
                 /\ Len(cfg'.entries) = Len(cfg.entries) + 1
                 /\ SubSeq(cfg'.entries, 1, Len(cfg.entries)) = cfg.entries
                 /\ cfg'.entries[Len(cfg'.entries)].data.device_id \notin ExistingIds(cfg)
           /\ \A f \in FlowIds :
                 (cfg'.flows[f].step = "mqtt_discovery" /\ cfg.flows[f].step # "mqtt_discovery")
                     => cfg'.flows[f].offered \cap ExistingIds(cfg) = {} ]_vars

\* Two entries exist, and a flow for the device of one of them has aborted.
C27_Witness ==
    /\ Len(cfg.entries) = 2
    /\ \E f \in FlowIds :
          /\ cfg.flows[f].step = "aborted"
          /\ cfg.flows[f].reason = "already_configured"
          /\ cfg.flows[f].unique_id \in ExistingIds(cfg)

\* C26: an entry is created by the confirm step only when get_status
\* returned for a client of exactly the url and key the entry stores, and the
\* options flow updates the entry's data only so; and a step whose get_status
\* raised AkariAuthError or AkariConnectionError shows its form again with an
\* error and leaves the entries and the entry's data as they were.
C26_StoredAfterValidation ==
    [][ /\ cfg'.entries # cfg.entries =>
              \E f \in FlowIds :
                  LET created == cfg'.entries[Len(cfg'.entries)]
                  IN  /\ cfg.flows[f].step = "confirm_checking"
                      /\ cfg'.flows[f].step = "created"
                      /\ cfg'.flows[f].outcome = "returned"
                      /\ created.data.api_url = cfg.flows[f].client.api_url
                      /\ created.data.api_key = cfg.flows[f].client.api_key
        /\ \A f \in FlowIds :
              (cfg.flows[f].step \in {"manual_checking", "confirm_checking"}
                  /\ cfg'.flows[f].outcome \in {"AkariAuthError", "AkariConnectionError"}) =>
                  /\ cfg'.entries = cfg.entries
                  /\ cfg'.flows[f].step \in {"manual", "confirm"}
                  /\ cfg'.flows[f].errors \in {"invalid_auth", "cannot_connect"}
        /\ entry_data' # entry_data =>
              /\ flow.pc = "checking" /\ flow.q.ph = "body"
              /\ flow'.pc = "done"
              /\ entry_data'.api_url = flow.url
              /\ entry_data'.api_key = flow.key
        /\ (flow.pc = "checking" /\ flow'.pc = "form") =>
              /\ entry_data' = entry_data
              /\ flow'.errors \in {"invalid_auth", "cannot_connect"} ]_vars

\* An entry was created with a key entered in the confirm step of a
\* discovery flow, and the options flow has stored another port and key.
C26_Witness ==
    /\ Len(cfg.entries) > 0
    /\ cfg.flows[1].step = "created"
    /\ cfg.flows[1].pending.api_key = ""
    /\ cfg.entries[Len(cfg.entries)].data.api_key = "k1"
    /\ flow.pc = "done"
    /\ entry_data = [api_url |-> BuildApiUrl(HOST, DEFAULT_PORT + 1), api_key |-> "k2"]

\* C28: every platform reads only keys the config flow wrote, no setup ends
\* because a platform could not be set up, and a loaded entry has the
\* entities of all three platforms attached.
C28_PlatformsSetUp ==
    /\ \A p \in Range(PLATFORMS) :
          PlatformReads(p) \subseteq {"CONF_DEVICE_ID", "CONF_API_URL", "CONF_API_KEY"}
    /\ setup_result.stage # "forward"
    /\ entry_state = "loaded" => platforms = Range(PLATFORMS)

====
